---- MODULE Spec2Model ----
(***************************************************************************)
(* Token-based authentication and role-based authorization of the Express  *)
(* tutorial applications: the JWT service (services/auth.js), the session  *)
(* middleware and access guard (middlewares/auth.js), their earlier        *)
(* variants (header based checkAuth / restrictTOUserLoginOnly, the README  *)
(* restrictTo, the session-id map of lesson 21), the login and logout      *)
(* handlers, the URL shortener routes and the route wiring of index.js.    *)
(*                                                                         *)
(* Spec      : token codec, middleware and guard under arbitrary tokens.   *)
(* SpecLogin : login, logout, restart and the session-id variant, with one *)
(*             browser and its cookie jar.                                 *)
(* SpecUrl   : the routes of the URL shortener behind the guard.           *)
(*                                                                         *)
(* Time is counted in hours, the unit of the token lifetime ("1h").        *)
(* HMAC is modelled as an ideal MAC: the tag of (key, alg, payload) is the *)
(* triple itself, so two tags are equal only for equal inputs.             *)
(***************************************************************************)
EXTENDS Integers, Sequences, FiniteSets, TLC

VARIABLES
  secretKey,  \* the secret of services/auth.js
  now,        \* the clock, in hours
  issued,     \* the tokens the login handlers have delivered
  req,        \* the request in flight
  sessions,   \* sessionIdToUserMap of the session-id variant
  boots,      \* how often the process has been restarted (SpecLogin)
  jar,        \* the cookies of the browser (SpecLogin)
  last,       \* the last login or logout and its response (SpecLogin)
  urls,       \* the URL collection (SpecUrl)
  served,     \* per short id, the redirects answered so far (SpecUrl)
  users,      \* the users list of the REST API (SpecUsers)
  file,       \* users.json on disk (SpecUsers)
  writes,     \* the fs.writeFile calls in flight (SpecUsers)
  reply,      \* the last response of the REST API (SpecUsers)
  uploads,    \* the files of the uploads folder (SpecUpload)
  received,   \* how many uploads the server has stored (SpecUpload)
  clockMs,    \* Date.now() (SpecUpload)
  inflight,   \* per request, where it is in the logging stack (SpecLog)
  logfile,    \* the lines of the log file (SpecLog)
  connected,  \* the sockets connected to the chat server (SpecChat)
  emitted,    \* per socket, the message events emitted to it (SpecChat)
  heard,      \* the user-message events the server received (SpecChat)
  blogs,      \* the blog collection (SpecUrl)
  exchanges,  \* per request of the methods server: where it stands (SpecHttp)
  serving     \* whether the process of the methods server runs (SpecHttp)

\* the state of the web applications with authentication
web == <<secretKey, now, issued, req, sessions, boots, jar, last, urls, served>>

\* the state of the users REST API
api == <<users, file, writes, reply>>

\* the state of the upload server
upl == <<uploads, received, clockMs>>

\* the state of the server with the logging middleware
logs == <<inflight, logfile>>

\* the state of the chat server
chat == <<connected, emitted, heard>>

\* the state of the blog application
blog == <<blogs>>

\* the state of the raw HTTP methods server
http == <<exchanges, serving>>

\* the state of the programs that stand apart from the web applications
ext == <<api, upl, logs, chat, blog, http>>

\* what the requests of one program leave alone
outsideApi == <<web, upl, logs, chat, blog, http>>
outsideUpl == <<web, api, logs, chat, blog, http>>
outsideLog == <<web, api, upl, chat, blog, http>>
outsideChat == <<web, api, upl, logs, blog, http>>
outsideHttp == <<web, api, upl, logs, chat, blog>>

vars == <<web, ext>>

\* what the requests of the token middleware leave alone
aux == <<sessions, boots, jar, last, urls, served, ext>>

----------------------------------------------------------------------------
(* Bounds *)

MaxClock == 2
MaxIssued == 1
MaxSessions == 1
MaxBoots == 1
MaxUrls == 2
MaxVisits == 1
MaxUsers == 2
MaxPending == 2
MaxUploads == 3
MaxMs == 2
MaxLogged == 2
MaxLines == 3
MaxSockets == 2
MaxMessages == 3
MaxRequests == 2
MaxChunks == 2

----------------------------------------------------------------------------
(* Program constants *)

\* jwt.sign(payload, secretKey, { expiresIn: "1h" })
ExpiresIn == 1

\* exp of a token signed without expiresIn (the claim is absent)
NoExp == -1

\* secrets the process may be started with; the attacker's key is none of them
Secrets == {"hamza21212hamzaabcdefghiklmnop", "rotated-secret"}
InitialSecret == "hamza21212hamzaabcdefghiklmnop"
AttackerKey == "attacker-key"

Roles == {"normal", "admin"}
RoleSets == (SUBSET Roles) \ {{}}

----------------------------------------------------------------------------
(* JavaScript values of req.user *)

Undefined == [kind |-> "undefined", _id |-> "", email |-> "", role |-> ""]
Null == [kind |-> "null", _id |-> "", email |-> "", role |-> ""]

UserObj(id, email, role) == [kind |-> "user", _id |-> id, email |-> email, role |-> role]

\* !x for a req.user value
Falsy(u) == u.kind \in {"undefined", "null"}

\* the user collection (User.findOne looks records up by email and password)
UsersDB ==
  { [_id |-> "alice-id", email |-> "alice@example.com", password |-> "pw-a", role |-> "normal"],
    [_id |-> "bob-id", email |-> "bob@example.com", password |-> "pw-b", role |-> "admin"] }

Emails == {"alice@example.com", "bob@example.com", "nobody@example.com"}
Passwords == {"pw-a", "pw-b"}

AsUser(rec) == UserObj(rec._id, rec.email, rec.role)

Users == { AsUser(rec) : rec \in UsersDB }

----------------------------------------------------------------------------
(* Token codec: jsonwebtoken as used by services/auth.js *)

\* the decoded payload { user, iat, exp }; kind "null" is getUser's null
Payload(u, iat, exp) == [kind |-> "payload", user |-> u, iat |-> iat, exp |-> exp]
NullPayload == [kind |-> "null", user |-> Null, iat |-> 0, exp |-> NoExp]

\* a payload that leaves the role of the user out
Ser_NoRole(p) == <<p.user.kind, p.user._id, p.user.email, "", p.iat, p.exp>>

\* JSON serialisation of the payload (the second part of the token)
Ser(p) == <<p.user.kind, p.user._id, p.user.email, p.user.role, p.iat, p.exp>>

\* JSON parse of the second part of the token
Deser(s) ==
  [kind |-> "payload",
   user |-> [kind |-> s[1], _id |-> s[2], email |-> s[3], role |-> s[4]],
   iat |-> s[5], exp |-> s[6]]

\* HMAC tag over "header.payload"
MAC(key, alg, ser) == <<key, alg, ser>>

EmptySer == <<"", "", "", "", 0, NoExp>>

\* a cookie or header value that is absent
NoToken == [parts |-> 0, alg |-> "", payload |-> EmptySer, sig |-> MAC("", "", EmptySer)]

\* a token string that is not header.payload.signature
Garbage == [parts |-> 1, alg |-> "", payload |-> EmptySer, sig |-> MAC("", "", EmptySer)]

\* jwt.sign: header { alg: HS256 }, payload with iat (and exp), HMAC signature
jwtSign(p, key) ==
  [parts |-> 3, alg |-> "HS256", payload |-> Ser(p), sig |-> MAC(key, "HS256", Ser(p))]

\* setUser of services/auth.js, first version: no expiry
setUserNoExpiry(user, key, t) == jwtSign(Payload(user, t, NoExp), key)

\* setUser of services/auth.js, second version: expiresIn "1h"
setUser(user, key, t) == jwtSign(Payload(user, t, t + ExpiresIn), key)

\* a verification that ignores the exp claim
jwtVerifyError_NoExpiry(token, key, t) ==
  IF token.parts # 3 THEN "JsonWebTokenError: jwt malformed"
  ELSE IF token.alg # "HS256" THEN "JsonWebTokenError: invalid algorithm"
  ELSE IF token.sig # MAC(key, token.alg, token.payload)
    THEN "JsonWebTokenError: invalid signature"
  ELSE "ok"

\* a verification that does not bind the signature to the signed bytes
jwtVerifyError_KeyOnly(token, key, t) ==
  IF token.parts # 3 THEN "JsonWebTokenError: jwt malformed"
  ELSE IF token.sig[1] # key THEN "JsonWebTokenError: invalid signature"
  ELSE IF token.payload[6] # NoExp /\ t >= token.payload[6]
    THEN "TokenExpiredError: jwt expired"
  ELSE "ok"

\* jwt.verify(token, secretKey) at clock t: the error name, or "ok"
jwtVerifyError(token, key, t) ==
  IF token.parts # 3 THEN "JsonWebTokenError: jwt malformed"
  ELSE IF token.alg # "HS256" THEN "JsonWebTokenError: invalid algorithm"
  ELSE IF token.sig # MAC(key, token.alg, token.payload)
    THEN "JsonWebTokenError: invalid signature"
  ELSE IF token.payload[6] # NoExp /\ t >= token.payload[6]
    THEN "TokenExpiredError: jwt expired"
  ELSE "ok"

\* getUser with jwt.decode in place of jwt.verify: no signature, no expiry
getUser_DecodeOnly(token, key, t) ==
  IF token.parts = 3 THEN Deser(token.payload) ELSE NullPayload

\* getUser: the decoded payload, or null when jwt.verify throws
getUser(token, key, t) ==
  IF jwtVerifyError(token, key, t) = "ok" THEN Deser(token.payload) ELSE NullPayload

----------------------------------------------------------------------------
(* Tokens a client can present *)

\* an issued token with one part altered by somebody who lacks the secret
Tampered(t) ==
  { [t EXCEPT !.payload = Ser(Payload(u, Deser(t.payload).iat, Deser(t.payload).exp))]
      : u \in Users \ {Deser(t.payload).user} }
  \cup { [t EXCEPT !.payload = Ser(Payload(Deser(t.payload).user, Deser(t.payload).iat, e))]
           : e \in {NoExp, MaxClock + ExpiresIn + 1} \ {Deser(t.payload).exp} }
  \cup { [t EXCEPT !.sig = MAC(AttackerKey, t.alg, t.payload)] }
  \cup { [t EXCEPT !.alg = "none"] }

\* a token signed by somebody else's key
Forged(t) == { jwtSign(Payload(u, t, NoExp), AttackerKey) : u \in Users }

\* the tokens the login handler has delivered so far
IssuedTokens == { i.token : i \in issued }

PresentedTokens ==
  {NoToken, Garbage} \cup IssuedTokens \cup UNION { Tampered(t) : t \in IssuedTokens }
    \cup Forged(now)

----------------------------------------------------------------------------
(* Requests and responses *)

NoRes == [kind |-> "none", status |-> 0, location |-> "", clearCookie |-> FALSE]

Redirect(loc) == [kind |-> "redirect", status |-> 302, location |-> loc, clearCookie |-> FALSE]
Send(status) == [kind |-> "send", status |-> status, location |-> "", clearCookie |-> FALSE]
Render(view) == [kind |-> "render", status |-> 200, location |-> view, clearCookie |-> FALSE]

\* res.clearCookie("token"): a Set-Cookie header on the response, nothing sent yet
ClearCookie == [kind |-> "none", status |-> 0, location |-> "", clearCookie |-> TRUE]

NoHeader == [present |-> FALSE, scheme |-> "", token |-> NoToken]
Bearer(t) == [present |-> TRUE, scheme |-> "Bearer", token |-> t]
\* an Authorization header of another scheme
Basic == [present |-> TRUE, scheme |-> "Basic", token |-> Garbage]

\* uid: the session-id cookie (0: none); shortId: the :shortId of the path
\* (0: none); listed: the short ids handed to the home view; url: body.url;
\* totalClicks: what the analytics handler reports
IdleReq ==
  [pc |-> "idle", app |-> "", route |-> "", cookie |-> NoToken, authorization |-> NoHeader,
   user |-> Undefined, idx |-> 0, trace |-> <<>>, res |-> NoRes,
   uid |-> 0, shortId |-> 0, listed |-> {}, url |-> "", totalClicks |-> 0]

\* what one middleware does: the value it leaves in req.user, what it writes to
\* the response, whether it calls next(), whether it throws
Outcome(user, res, next, threw) == [user |-> user, res |-> res, next |-> next, threw |-> threw]

----------------------------------------------------------------------------
(* middlewares/auth.js *)

\* checkForAuthentication that prefers a bearer token of the Authorization header
checkForAuthentication_HeaderFirst(r, key, t) ==
  LET token == IF r.authorization.scheme = "Bearer" THEN r.authorization.token ELSE r.cookie IN
  IF token.parts = 0 THEN Outcome(Null, NoRes, TRUE, FALSE)
  ELSE LET user == getUser(token, key, t) IN
    IF user.kind = "null" \/ Falsy(user.user)
      THEN Outcome(Null, ClearCookie, TRUE, FALSE)
      ELSE Outcome(user.user, NoRes, TRUE, FALSE)

\* checkForAuthentication that answers an invalid token itself
checkForAuthentication_Redirects(r, key, t) ==
  IF r.cookie.parts = 0 THEN Outcome(Null, NoRes, TRUE, FALSE)
  ELSE LET user == getUser(r.cookie, key, t) IN
    IF user.kind = "null" \/ Falsy(user.user)
      THEN Outcome(Null, Redirect("/login"), FALSE, FALSE)
      ELSE Outcome(user.user, NoRes, TRUE, FALSE)

\* a middleware that looks the user up in the session table instead
checkForAuthentication_SessionTable(r, key, t) ==
  IF \E e \in sessions : e.id = r.uid
    THEN Outcome((CHOOSE e \in sessions : e.id = r.uid).user, NoRes, TRUE, FALSE)
    ELSE Outcome(Null, NoRes, TRUE, FALSE)

\* checkForAuthentication: cookie token -> req.user, always next().
\* The catch block is not a separate case: getUser catches the errors of
\* jwt.verify itself and nothing else in the try block throws.
checkForAuthentication(r, key, t) ==
  IF r.cookie.parts = 0 THEN Outcome(Null, NoRes, TRUE, FALSE)
  ELSE LET user == getUser(r.cookie, key, t) IN
    IF user.kind = "null" \/ Falsy(user.user)
      THEN Outcome(Null, ClearCookie, TRUE, FALSE)
      ELSE Outcome(user.user, NoRes, TRUE, FALSE)

\* restrictTo without the role test: every authenticated user passes
restrictTo_NoRoleCheck(roles, r) ==
  IF Falsy(r.user) THEN Outcome(r.user, Redirect("/login"), FALSE, FALSE)
  ELSE Outcome(r.user, NoRes, TRUE, FALSE)

\* restrictTo(roles): redirect anonymous, 403 for a role outside roles
\* (roles.includes on an array and a property read of a truthy req.user do
\* not throw, so the 500 of the catch block is never sent)
restrictTo(roles, r) ==
  IF Falsy(r.user) THEN Outcome(r.user, Redirect("/login"), FALSE, FALSE)
  ELSE IF r.user.role \notin roles THEN Outcome(r.user, Send(403), FALSE, FALSE)
  ELSE Outcome(r.user, NoRes, TRUE, FALSE)

----------------------------------------------------------------------------
(* README of "24. Authorization in Node.js": the earlier middleware *)

\* cookie-based checkForAuthentication of the README: req.user = getUser(cookie);
\* the README signs the claims of the user flat ({ id, email, role }), so what
\* getUser returns is the user
checkForAuthenticationReadme(r, key, t) ==
  IF r.cookie.parts = 0 THEN Outcome(Null, NoRes, TRUE, FALSE)
  ELSE Outcome(getUser(r.cookie, key, t).user, NoRes, TRUE, FALSE)

\* header-based checkForAuthentication of the README: null without a Bearer
\* header, the user of a valid token, and next() without an assignment when
\* getUser returns null
checkForAuthenticationHeader(r, key, t) ==
  LET authorizationHeaderValue == r.authorization IN
  IF ~authorizationHeaderValue.present \/ authorizationHeaderValue.scheme # "Bearer"
    THEN Outcome(Null, NoRes, TRUE, FALSE)
    ELSE LET user == getUser(authorizationHeaderValue.token, key, t) IN
      IF user.kind = "null" THEN Outcome(r.user, NoRes, TRUE, FALSE)
      ELSE Outcome(user.user, NoRes, TRUE, FALSE)

\* restrictTo of the README: 401 "Unauthorized" for a role outside roles
restrictToReadme(roles, r) ==
  IF Falsy(r.user) THEN Outcome(r.user, Redirect("/login"), FALSE, FALSE)
  ELSE IF r.user.role \notin roles THEN Outcome(r.user, Send(401), FALSE, FALSE)
  ELSE Outcome(r.user, NoRes, TRUE, FALSE)

----------------------------------------------------------------------------
(* Header variant of the middleware ("22. Token-Based Authentication") *)

\* req.headers[name]: Node stores header names in lower case
HeaderLookup(r, name) ==
  IF name = "authorization" /\ r.authorization.present THEN r.authorization ELSE NoHeader

\* userid.split("Bearer ")[1]: undefined unless the value starts a Bearer token
SplitBearer(h) == IF h.scheme = "Bearer" THEN h.token ELSE NoToken

\* restrictTOUserLoginOnly: reads req.headers["Authorization"]
restrictTOUserLoginOnly(r, key, t) ==
  LET userid == HeaderLookup(r, "Authorization") IN
  IF ~userid.present THEN Outcome(r.user, Redirect("/login"), FALSE, FALSE)
  ELSE LET result == getUser(SplitBearer(userid), key, t) IN
    IF result.kind = "null" \/ Falsy(result.user)
      THEN Outcome(r.user, Redirect("/login"), FALSE, FALSE)
      ELSE Outcome(result.user, NoRes, TRUE, FALSE)

\* checkAuth: reads req.headers["authorization"] and splits it unguarded
checkAuth(r, key, t) ==
  LET userid == HeaderLookup(r, "authorization") IN
  IF ~userid.present THEN Outcome(r.user, NoRes, FALSE, TRUE)
  ELSE LET token == SplitBearer(userid) IN
    IF token.parts = 0 THEN Outcome(Null, NoRes, TRUE, FALSE)
    ELSE LET result == getUser(token, key, t) IN
      IF result.kind = "null" THEN Outcome(Null, NoRes, TRUE, FALSE)
      ELSE Outcome(result.user, NoRes, TRUE, FALSE)

----------------------------------------------------------------------------
(* Session-id variant ("21. Authentication"): the users live in a Map *)

\* getUser(id) of service/auth.js: sessionIdToUserMap.get(id)
getUserSession(map, id) ==
  IF \E e \in map : e.id = id THEN (CHOOSE e \in map : e.id = id).user ELSE Undefined

\* setUser(id, user) of service/auth.js: sessionIdToUserMap.set(id, user)
setUserSession(map, id, user) ==
  { e \in map : e.id # id } \cup {[id |-> id, user |-> user]}

\* uid(): an id no map entry and no cookie of the browser carries
uid(map, cookies) ==
  CHOOSE id \in 1..(MaxSessions + 2) :
    /\ id # cookies.uid
    /\ \A e \in map : e.id # id
    /\ \A other \in 1..(id - 1) : other = cookies.uid \/ \E e \in map : e.id = other

\* restrictTOUserLoginOnly of the session-id variant: req.cookies.uid
restrictTOUserLoginOnlySession(r, map) ==
  IF r.uid = 0 THEN Outcome(r.user, Redirect("/login"), FALSE, FALSE)
  ELSE LET User == getUserSession(map, r.uid) IN
    IF Falsy(User) THEN Outcome(r.user, Redirect("/login"), FALSE, FALSE)
    ELSE Outcome(User, NoRes, TRUE, FALSE)

\* checkAuth of the session-id variant: req.user = getUser(uid)
checkAuthSession(r, map) == Outcome(getUserSession(map, r.uid), NoRes, TRUE, FALSE)

\* GET / of the static router: without a user the handler itself redirects
staticRouterHome(r) ==
  IF Falsy(r.user) THEN Outcome(r.user, Redirect("/login"), FALSE, FALSE)
  ELSE Outcome(r.user, Render("home"), FALSE, FALSE)

----------------------------------------------------------------------------
(* Route wiring *)

Apps == {"authz", "readme", "header"}

\* the applications the browser of SpecLogin talks to
BrowserApps == {"authz", "session"}

\* authz: the mounts of index.js and the admin page of its README route list;
\* readme: the two routes of the README's route protection setup;
\* header: the mounts of the index.js that uses restrictTOUserLoginOnly / checkAuth;
\* session: the same mounts with the session-id middleware;
\* shortener: the requests the index.js of authz routes, by method and path;
\* shortener21: the short link under the index.js of the session variant;
\* shortenerReadme: the short link under the index.js of the lesson-21 README;
\* blog: the blog router under the index.js of the blog application;
\* readmeHeader: the README's two routes behind its header-based middleware
RoutesOf(app) ==
  CASE app = "authz" -> {"/url", "/", "/admin", "/user"}
    [] app = "readme" -> {"/", "/admin/urls"}
    [] app = "header" -> {"/url", "/"}
    [] app = "session" -> {"/url", "/"}
    [] app = "shortener" ->
         {"GET /", "GET /login", "GET /signup", "POST /url", "GET /:shortId",
          "GET /url/analytics/:shortId"}
    [] app = "shortener21" -> {"GET /:shortId"}
    [] app = "shortenerReadme" -> {"GET /url/:shortId"}
    [] app = "blog" -> {"POST /blog"}
    [] app = "readmeHeader" -> {"/", "/admin/urls"}

\* the role set a route hands to restrictTo
RequiredRoles(app, route) ==
  IF route \in {"/admin", "/admin/urls"} THEN {"admin"} ELSE {"admin", "normal"}

\* the handler a request of the shortener ends at
EndPoint(route) ==
  CASE route = "GET /" -> "homeList"
    [] route \in {"GET /login", "GET /signup"} -> "page"
    [] route = "POST /url" -> "handleGenerateNewShortURL"
    [] route = "GET /:shortId" -> "redirect"
    [] route = "GET /url/:shortId" -> "redirectUnchecked"
    [] route = "GET /url/analytics/:shortId" -> "handleGetAnalytics"
    [] route = "POST /blog" -> "blogPost"

\* the wiring without the guard in front of the routers
Chain_NoGuard(app, route) ==
  CASE app = "authz" -> <<"checkForAuthentication", "handler">>
    [] app = "readme" ->
         <<"checkForAuthenticationReadme", "restrictToReadme", "handler">>
    [] app = "header" /\ route = "/url" -> <<"restrictTOUserLoginOnly", "handler">>
    [] app = "header" /\ route # "/url" -> <<"checkAuth", "handler">>
    [] app = "session" /\ route = "/url" ->
         <<"restrictTOUserLoginOnlySession", "handler">>
    [] app = "session" /\ route # "/url" -> <<"checkAuthSession", "home">>
    [] app = "shortener" -> <<"checkForAuthentication", EndPoint(route)>>
    [] app = "shortener21" -> <<"checkAuthSession", EndPoint(route)>>
    [] app = "shortenerReadme" ->
         <<"restrictTOUserLoginOnlySession", "checkAuthSession", EndPoint(route)>>
    [] app = "blog" -> <<EndPoint(route)>>
    [] app = "readmeHeader" ->
         <<"checkForAuthenticationHeader", "restrictToReadme", "handler">>

\* the middleware stack of a route, in the order of the app.use calls
Chain(app, route) ==
  CASE app = "authz" /\ route = "/user" -> <<"checkForAuthentication", "handler">>
    [] app = "authz" /\ route # "/user" ->
         <<"checkForAuthentication", "restrictTo", "handler">>
    [] app = "readme" ->
         <<"checkForAuthenticationReadme", "restrictToReadme", "handler">>
    [] app = "header" /\ route = "/url" -> <<"restrictTOUserLoginOnly", "handler">>
    [] app = "header" /\ route # "/url" -> <<"checkAuth", "handler">>
    [] app = "session" /\ route = "/url" ->
         <<"restrictTOUserLoginOnlySession", "handler">>
    [] app = "session" /\ route # "/url" -> <<"checkAuthSession", "home">>
    [] app = "shortener" ->
         <<"checkForAuthentication", "restrictTo", EndPoint(route)>>
    [] app = "shortener21" -> <<"checkAuthSession", EndPoint(route)>>
    [] app = "shortenerReadme" ->
         <<"restrictTOUserLoginOnlySession", "checkAuthSession", EndPoint(route)>>
    [] app = "blog" -> <<EndPoint(route)>>
    [] app = "readmeHeader" ->
         <<"checkForAuthenticationHeader", "restrictToReadme", "handler">>

Stage(r) == IF r.pc = "running" THEN Chain(r.app, r.route)[r.idx] ELSE "none"

\* the request after a middleware ran with outcome out
Apply(r, stage, out) ==
  LET res == IF out.res.kind = "none"
               THEN [r.res EXCEPT !.clearCookie = r.res.clearCookie \/ out.res.clearCookie]
               ELSE [out.res EXCEPT !.clearCookie = r.res.clearCookie]
  IN [r EXCEPT
        !.user = out.user,
        !.res = res,
        !.trace = Append(r.trace, [stage |-> stage, next |-> out.next, user |-> out.user, res |-> res]),
        !.pc = IF out.threw THEN "thrown" ELSE IF out.next THEN "running" ELSE "done",
        !.idx = IF out.next THEN r.idx + 1 ELSE r.idx]

----------------------------------------------------------------------------
(* Login and logout handlers, and the browser that keeps their cookies *)

LoginVariants == {"session", "token", "blog"}

\* User.findOne({ email, password }): the matching records (none: null)
findOne(email, password) ==
  { rec \in UsersDB : rec.email = email /\ rec.password = password }

\* what a login or logout handler answers: the response, the error handed to
\* the view, and the cookie it sets ("none", "uid", "token" or "clear")
Answer(user, res, error, cookie, token, id) ==
  [user |-> user, res |-> res, error |-> error, cookie |-> cookie,
   token |-> token, uid |-> id]

\* handlUserLogin of the session-id variant
handlUserLoginSession(email, password, map, cookies) ==
  LET found == findOne(email, password) IN
  IF found = {}
    THEN Answer(Null, Render("login"), "login and password incorrect", "none", NoToken, 0)
    ELSE LET user == AsUser(CHOOSE rec \in found : TRUE)
         IN Answer(user, Redirect("/"), "", "uid", NoToken, uid(map, cookies))

\* a login that looks the user up by email alone
handlUserLoginToken_EmailOnly(email, password, key, t) ==
  LET found == { rec \in UsersDB : rec.email = email } IN
  IF found = {}
    THEN Answer(Null, Render("login"), "login and password incorrect", "none", NoToken, 0)
    ELSE LET user == AsUser(CHOOSE rec \in found : TRUE)
         IN Answer(user, Redirect("/"), "", "token", setUser(user, key, t), 0)

\* handlUserLogin of the token variant: setUser(user), res.cookie("token", token)
handlUserLoginToken(email, password, key, t) ==
  LET found == findOne(email, password) IN
  IF found = {}
    THEN Answer(Null, Render("login"), "login and password incorrect", "none", NoToken, 0)
    ELSE LET user == AsUser(CHOOSE rec \in found : TRUE)
         IN Answer(user, Redirect("/"), "", "token", setUser(user, key, t), 0)

\* createHmac("sha256", salt).update(password).digest("hex")
createHmac(salt, password) == <<salt, password>>

\* the salt and the hashed password a record is stored with
Salt(rec) == rec._id
HashedPassword(rec) == createHmac(Salt(rec), rec.password)

\* matchPassword: throws "User not found" or "Incorrect password"
matchPassword(email, password) ==
  LET found == { rec \in UsersDB : rec.email = email } IN
  IF found = {} THEN [threw |-> TRUE, message |-> "User not found", user |-> Null]
  ELSE LET rec == CHOOSE r \in found : TRUE IN
    IF HashedPassword(rec) # createHmac(Salt(rec), password)
      THEN [threw |-> TRUE, message |-> "Incorrect password", user |-> Null]
      ELSE [threw |-> FALSE, message |-> "", user |-> AsUser(rec)]

\* a sign-in route that hands the message of the error to the view
signin_ShowsMessage(email, password, key, t) ==
  LET m == matchPassword(email, password) IN
  IF m.threw THEN Answer(Null, Render("signin"), m.message, "none", NoToken, 0)
  ELSE Answer(m.user, Redirect("/"), "", "token", setUserNoExpiry(m.user, key, t), 0)

\* POST /signin of the blog: the token on success, one message for every error
signin(email, password, key, t) ==
  LET m == matchPassword(email, password) IN
  IF m.threw THEN Answer(Null, Render("signin"), "Invalid credentials", "none", NoToken, 0)
  ELSE Answer(m.user, Redirect("/"), "", "token", setUserNoExpiry(m.user, key, t), 0)

\* the login handler of a variant
LoginAnswer(variant, email, password) ==
  CASE variant = "session" -> handlUserLoginSession(email, password, sessions, jar)
    [] variant = "token" -> handlUserLoginToken(email, password, secretKey, now)
    [] variant = "blog" -> signin(email, password, secretKey, now)

\* a logout that leaves the cookie alone
logout_KeepsCookie == Answer(Null, Render("signin"), "", "none", NoToken, 0)

\* GET /logout of the blog: res.clearCookie("token"); res.render("signin")
logout ==
  Answer(Null, [Render("signin") EXCEPT !.clearCookie = TRUE], "", "clear", NoToken, 0)

\* the browser stores the cookie of an answer
StoreCookie(cookies, answer) ==
  CASE answer.cookie = "token" -> [cookies EXCEPT !.token = answer.token]
    [] answer.cookie = "uid" -> [cookies EXCEPT !.uid = answer.uid]
    [] answer.cookie = "clear" -> [cookies EXCEPT !.token = NoToken]
    [] answer.cookie = "none" -> cookies

\* what last keeps of an exchange
Exchange(op, variant, email, password, answer) ==
  [op |-> op, variant |-> variant, email |-> email, password |-> password,
   res |-> answer.res, error |-> answer.error, cookie |-> answer.cookie,
   token |-> answer.token, uid |-> answer.uid]

----------------------------------------------------------------------------

NoJar == [token |-> NoToken, uid |-> 0]

\* a request slot of the logging server before a request arrives
Waiting ==
  [stage |-> "idle", method |-> "", path |-> "", append |-> "none", nextCalls |-> 0]

\* no request of the REST API answered yet
NoReply == [status |-> 0, mutated |-> FALSE]

NoLast ==
  [op |-> "none", variant |-> "", email |-> "", password |-> "", res |-> NoRes,
   error |-> "", cookie |-> "none", token |-> NoToken, uid |-> 0]

Init ==
  /\ secretKey = InitialSecret
  /\ now = 0
  /\ issued = {}
  /\ req = IdleReq
  /\ sessions = {}
  /\ boots = 0
  /\ jar = NoJar
  /\ last = NoLast
  /\ urls = {}
  /\ served = [id \in 1..MaxUrls |-> 0]
  /\ users = <<>>
  /\ file = [content |-> <<>>, failed |-> FALSE]
  /\ writes = <<>>
  /\ reply = NoReply
  /\ uploads = {}
  /\ received = 0
  /\ clockMs = 0
  /\ inflight = [r \in 1..MaxLogged |-> Waiting]
  /\ logfile = <<>>
  /\ connected = {}
  /\ emitted = [t \in 1..MaxSockets |-> <<>>]
  /\ heard = <<>>
  /\ blogs = {}
  /\ exchanges = [r \in 1..MaxRequests |->
                    [state |-> "none", method |-> "", body |-> <<>>, status |-> 0, answers |-> 0]]
  /\ serving = TRUE

\* the clock advances by one hour
Tick ==
  /\ req.pc = "idle"
  /\ now < MaxClock
  /\ now' = now + 1
  /\ UNCHANGED <<secretKey, issued, req, aux>>

\* the process is restarted, possibly with another secret; what it held in
\* memory is gone
Restart(k) ==
  /\ req.pc = "idle"
  /\ secretKey' = k
  /\ sessions' = {}
  /\ UNCHANGED <<now, issued, req, boots, jar, last, urls, served, ext>>

\* handlUserLogin (JWT variant): User.findOne({ email, password }), then
\* setUser(user) and res.cookie("token", token); issued remembers the user
\* that was handed to setUser and the hour of the login
handlUserLogin(email, password, expiring) ==
  /\ req.pc = "idle"
  /\ Cardinality(issued) < MaxIssued
  /\ \E rec \in UsersDB :
       /\ rec.email = email
       /\ rec.password = password
       /\ LET user == AsUser(rec)
              token == IF expiring THEN setUser(user, secretKey, now)
                                   ELSE setUserNoExpiry(user, secretKey, now)
          IN issued' = issued \cup
               {[token |-> token, user |-> user, at |-> now, boot |-> boots]}
  /\ UNCHANGED <<secretKey, now, req, aux>>

\* the cookie and header values a client sends to an application
CookiesFor(app) ==
  IF app = "header" THEN {NoToken, Garbage} \cup IssuedTokens ELSE PresentedTokens

HeadersFor(app) ==
  IF app = "header"
    THEN {NoHeader, Basic} \cup { Bearer(t) : t \in PresentedTokens }
    ELSE {NoHeader} \cup { Bearer(t) : t \in IssuedTokens }

\* a request arrives with its cookie and its Authorization header
NewRequest ==
  /\ req.pc = "idle"
  /\ \E app \in Apps : \E route \in RoutesOf(app) :
       \E cookie \in CookiesFor(app), authorization \in HeadersFor(app) :
         req' = [IdleReq EXCEPT !.pc = "running", !.app = app, !.route = route,
                   !.cookie = cookie, !.authorization = authorization, !.idx = 1]
  /\ UNCHANGED <<secretKey, now, issued, aux>>

RunCheckForAuthentication ==
  /\ Stage(req) = "checkForAuthentication"
  /\ req' = Apply(req, "checkForAuthentication", checkForAuthentication(req, secretKey, now))
  /\ UNCHANGED <<secretKey, now, issued, aux>>

RunRestrictTo ==
  /\ Stage(req) = "restrictTo"
  /\ req' = Apply(req, "restrictTo", restrictTo(RequiredRoles(req.app, req.route), req))
  /\ UNCHANGED <<secretKey, now, issued, aux>>

RunCheckForAuthenticationReadme ==
  /\ Stage(req) = "checkForAuthenticationReadme"
  /\ req' = Apply(req, "checkForAuthenticationReadme",
                  checkForAuthenticationReadme(req, secretKey, now))
  /\ UNCHANGED <<secretKey, now, issued, aux>>

RunRestrictToReadme ==
  /\ Stage(req) = "restrictToReadme"
  /\ req' = Apply(req, "restrictToReadme",
                  restrictToReadme(RequiredRoles(req.app, req.route), req))
  /\ UNCHANGED <<secretKey, now, issued, aux>>

RunRestrictTOUserLoginOnly ==
  /\ Stage(req) = "restrictTOUserLoginOnly"
  /\ req' = Apply(req, "restrictTOUserLoginOnly",
                  restrictTOUserLoginOnly(req, secretKey, now))
  /\ UNCHANGED <<secretKey, now, issued, aux>>

RunCheckAuth ==
  /\ Stage(req) = "checkAuth"
  /\ req' = Apply(req, "checkAuth", checkAuth(req, secretKey, now))
  /\ UNCHANGED <<secretKey, now, issued, aux>>

\* the route handler at the end of the stack renders its page
Handler ==
  /\ Stage(req) = "handler"
  /\ req' = Apply(req, "handler", Outcome(req.user, Render("home"), FALSE, FALSE))
  /\ UNCHANGED <<secretKey, now, issued, aux>>

\* the request is over: answered, or abandoned after the middleware threw
Complete ==
  /\ req.pc \in {"done", "thrown"}
  /\ req' = IdleReq
  /\ UNCHANGED <<secretKey, now, issued, aux>>

Next ==
  \/ Tick
  \/ \E k \in Secrets : Restart(k)
  \/ \E e \in Emails, p \in Passwords, x \in BOOLEAN : handlUserLogin(e, p, x)
  \/ NewRequest
  \/ RunCheckForAuthentication
  \/ RunRestrictTo
  \/ RunCheckForAuthenticationReadme
  \/ RunRestrictToReadme
  \/ RunRestrictTOUserLoginOnly
  \/ RunCheckAuth
  \/ Handler
  \/ Complete

Spec == Init /\ [][Next]_vars

----------------------------------------------------------------------------
(* SpecHeader: the cookie-based checkForAuthentication of middlewares/auth.js
   next to the header-based one of the README *)

HeaderRequest ==
  /\ req.pc = "idle"
  /\ \E app \in {"authz", "readmeHeader"} : \E route \in RoutesOf(app) :
       \E cookie \in PresentedTokens,
          authorization \in {NoHeader, Basic} \cup { Bearer(t) : t \in PresentedTokens } :
         /\ app = "authz" => authorization = NoHeader
         /\ app = "readmeHeader" => cookie = NoToken
         /\ req' = [IdleReq EXCEPT !.pc = "running", !.app = app, !.route = route,
                      !.cookie = cookie, !.authorization = authorization, !.idx = 1]
  /\ UNCHANGED <<secretKey, now, issued, aux>>

RunCheckForAuthenticationHeader ==
  /\ Stage(req) = "checkForAuthenticationHeader"
  /\ req' = Apply(req, "checkForAuthenticationHeader",
                  checkForAuthenticationHeader(req, secretKey, now))
  /\ UNCHANGED <<secretKey, now, issued, aux>>

NextHeader ==
  \/ Tick
  \/ \E k \in Secrets : Restart(k)
  \/ \E e \in Emails, p \in Passwords, x \in BOOLEAN : handlUserLogin(e, p, x)
  \/ HeaderRequest
  \/ RunCheckForAuthentication
  \/ RunCheckForAuthenticationHeader
  \/ RunRestrictTo
  \/ RunRestrictToReadme
  \/ Handler
  \/ Complete

SpecHeader == Init /\ [][NextHeader]_vars

----------------------------------------------------------------------------
(* SpecLogin: one browser logs in and out, the process restarts *)

\* a login attempt: the handler answers, the browser stores the cookie
Login(variant, email, password) ==
  /\ req.pc = "idle"
  /\ LET answer == LoginAnswer(variant, email, password) IN
       /\ answer.cookie = "token" => Cardinality(issued) < MaxIssued
       /\ answer.cookie = "uid" => Cardinality(sessions) < MaxSessions
       /\ issued' = IF answer.cookie = "token"
                      THEN issued \cup {[token |-> answer.token, user |-> answer.user,
                                         at |-> now, boot |-> boots]}
                      ELSE issued
       /\ sessions' = IF answer.cookie = "uid"
                        THEN setUserSession(sessions, answer.uid, answer.user)
                        ELSE sessions
       /\ jar' = StoreCookie(jar, answer)
       /\ last' = Exchange("login", variant, email, password, answer)
  /\ UNCHANGED <<secretKey, now, req, boots, urls, served, ext>>

\* GET /logout
Logout ==
  /\ req.pc = "idle"
  /\ jar' = StoreCookie(jar, logout)
  /\ last' = Exchange("logout", "blog", "", "", logout)
  /\ UNCHANGED <<secretKey, now, issued, req, sessions, boots, urls, served, ext>>

\* the process is restarted with the secret of its source: the Map is empty
Reboot ==
  /\ req.pc = "idle"
  /\ boots < MaxBoots
  /\ boots' = boots + 1
  /\ sessions' = {}
  /\ UNCHANGED <<secretKey, now, issued, req, jar, last, urls, served, ext>>

\* the browser sends a request with the cookies it holds
BrowserRequest ==
  /\ req.pc = "idle"
  /\ \E app \in BrowserApps : \E route \in RoutesOf(app) :
       req' = [IdleReq EXCEPT !.pc = "running", !.app = app, !.route = route,
                 !.cookie = jar.token, !.uid = jar.uid, !.idx = 1]
  /\ UNCHANGED <<secretKey, now, issued, aux>>

RunRestrictTOUserLoginOnlySession ==
  /\ Stage(req) = "restrictTOUserLoginOnlySession"
  /\ req' = Apply(req, "restrictTOUserLoginOnlySession",
                  restrictTOUserLoginOnlySession(req, sessions))
  /\ UNCHANGED <<secretKey, now, issued, aux>>

RunCheckAuthSession ==
  /\ Stage(req) = "checkAuthSession"
  /\ req' = Apply(req, "checkAuthSession", checkAuthSession(req, sessions))
  /\ UNCHANGED <<secretKey, now, issued, aux>>

\* GET / of the static router
Home ==
  /\ Stage(req) = "home"
  /\ req' = Apply(req, "home", staticRouterHome(req))
  /\ UNCHANGED <<secretKey, now, issued, aux>>

NextLogin ==
  \/ \E v \in LoginVariants, e \in Emails, p \in Passwords : Login(v, e, p)
  \/ Logout
  \/ Reboot
  \/ BrowserRequest
  \/ RunCheckForAuthentication
  \/ RunRestrictTo
  \/ RunRestrictTOUserLoginOnlySession
  \/ RunCheckAuthSession
  \/ Home
  \/ Handler
  \/ Complete

SpecLogin == Init /\ [][NextLogin]_vars

----------------------------------------------------------------------------
(* SpecUrl: the routes of the URL shortener *)

\* body.url of a POST /url: missing, or a URL
Bodies == {"", "https://example.com/a"}

\* the token cookies of clients that have logged in
LoggedIn == { setUser(u, secretKey, now) : u \in Users }

\* shortid(): an id no URL carries
shortid(all) ==
  CHOOSE id \in 1..(Cardinality(all) + 1) :
    /\ \A u \in all : u.shortId # id
    /\ \A other \in 1..(id - 1) : \E u \in all : u.shortId = other

\* URLModel.find() for every user: the short ids of the whole collection
homeUrls_FindAll(user, all) == { u.shortId : u \in all }

\* the URLs of GET /: URLModel.find() for an admin, else
\* URLModel.find({ createdBy: userId })
homeUrls(user, all) ==
  IF user.role = "admin" THEN { u.shortId : u \in all }
  ELSE { u.shortId : u \in { v \in all : v.createdBy = user._id } }

\* URL.findOneAndUpdate({ shortId }, { $push: { visitHistory } }): one more
\* visit on the matching entry
findOneAndUpdate(all, id) ==
  { IF u.shortId = id THEN [u EXCEPT !.visits = u.visits + 1] ELSE u : u \in all }

\* result.visitHistory.length of the entry with that short id
totalClicks(all, id) == (CHOOSE u \in all : u.shortId = id).visits

\* the redirects answered, after a request for id was answered
Answered(count, all, id) ==
  IF \E u \in all : u.shortId = id THEN [count EXCEPT ![id] = @ + 1] ELSE count

\* the routes that carry a :shortId
WithShortId == {"GET /:shortId", "GET /url/:shortId", "GET /url/analytics/:shortId"}

\* a request arrives at the shortener
UrlRequest ==
  /\ req.pc = "idle"
  /\ \E app \in {"shortener", "shortener21", "shortenerReadme", "blog"} :
       \E route \in RoutesOf(app) :
       \E cookie \in {NoToken} \cup LoggedIn, id \in 0..MaxUrls, url \in Bodies :
         /\ (id # 0) = (route \in WithShortId)
         /\ (url # "") => route = "POST /url"
         /\ route = "POST /url" => Cardinality(urls) < MaxUrls
         /\ route # "GET /url/analytics/:shortId" =>
              \A u \in urls : u.shortId = id => u.visits < MaxVisits
         /\ app # "shortener" => cookie = NoToken
         /\ req' = [IdleReq EXCEPT !.pc = "running", !.app = app, !.route = route,
                      !.cookie = cookie, !.shortId = id, !.url = url, !.idx = 1,
                      !.uid = IF app = "shortenerReadme" THEN jar.uid ELSE 0]
  /\ UNCHANGED <<secretKey, now, issued, aux>>

\* GET / of the static router: redirect without a user, else the home view
\* with the URLs of the user (all URLs for an admin)
HomeList ==
  /\ Stage(req) = "homeList"
  /\ LET out == staticRouterHome(req) IN
       req' = [Apply(req, "homeList", out) EXCEPT
                 !.listed = IF Falsy(req.user) THEN {} ELSE homeUrls(req.user, urls)]
  /\ UNCHANGED <<secretKey, now, issued, aux>>

\* GET /login and GET /signup of the static router
Page ==
  /\ Stage(req) = "page"
  /\ req' = Apply(req, "page",
                  Outcome(req.user, Render(IF req.route = "GET /login" THEN "login" ELSE "signup"),
                          FALSE, FALSE))
  /\ UNCHANGED <<secretKey, now, issued, aux>>

\* handleGenerateNewShortURL: 400 without body.url, else a new URL created by
\* req.user._id
GenerateNewShortURL ==
  /\ Stage(req) = "handleGenerateNewShortURL"
  /\ IF req.url = ""
       THEN /\ req' = Apply(req, "handleGenerateNewShortURL",
                            Outcome(req.user, Send(400), FALSE, FALSE))
            /\ urls' = urls
       ELSE /\ req' = Apply(req, "handleGenerateNewShortURL",
                            Outcome(req.user, Render("home"), FALSE, FALSE))
            /\ urls' = urls \cup {[shortId |-> shortid(urls), redirectURL |-> req.url,
                                   createdBy |-> req.user._id, visits |-> 0]}
  /\ UNCHANGED <<secretKey, now, issued, sessions, boots, jar, last, served, ext>>

\* app.get("/:shortId"): one more visit and the redirect, or 404
RedirectShort ==
  /\ Stage(req) = "redirect"
  /\ urls' = findOneAndUpdate(urls, req.shortId)
  /\ IF \E u \in urls : u.shortId = req.shortId
       THEN req' = Apply(req, "redirect",
                         Outcome(req.user,
                                 Redirect((CHOOSE u \in urls : u.shortId = req.shortId).redirectURL),
                                 FALSE, FALSE))
       ELSE req' = Apply(req, "redirect", Outcome(req.user, Send(404), FALSE, FALSE))
  /\ served' = Answered(served, urls, req.shortId)
  /\ UNCHANGED <<secretKey, now, issued, sessions, boots, jar, last, ext>>

\* app.get("/url/:shortId") of the lesson-21 README: one more visit and the
\* redirect; entry.redirectURL of a null entry throws
RedirectUnchecked ==
  /\ Stage(req) = "redirectUnchecked"
  /\ urls' = findOneAndUpdate(urls, req.shortId)
  /\ IF \E u \in urls : u.shortId = req.shortId
       THEN req' = Apply(req, "redirectUnchecked",
                         Outcome(req.user,
                                 Redirect((CHOOSE u \in urls : u.shortId = req.shortId).redirectURL),
                                 FALSE, FALSE))
       ELSE req' = Apply(req, "redirectUnchecked", Outcome(req.user, NoRes, FALSE, TRUE))
  /\ served' = Answered(served, urls, req.shortId)
  /\ UNCHANGED <<secretKey, now, issued, sessions, boots, jar, last, ext>>

\* router.post("/") of the blog router: Blog.create with createdBy
\* req.user._id, then the redirect to the new blog; req.user._id of a req.user
\* no middleware has set throws
BlogPost ==
  /\ Stage(req) = "blogPost"
  /\ IF Falsy(req.user)
       THEN /\ req' = Apply(req, "blogPost", Outcome(req.user, NoRes, FALSE, TRUE))
            /\ blogs' = blogs
       ELSE /\ req' = Apply(req, "blogPost", Outcome(req.user, Redirect("/blog/:id"), FALSE, FALSE))
            /\ blogs' = blogs \cup {[createdBy |-> req.user._id]}
  /\ UNCHANGED <<secretKey, now, issued, sessions, boots, jar, last, urls, served,
                 api, upl, logs, chat, http>>

\* handleGetAnalytics: 404 for an unknown short id, else totalClicks =
\* result.visitHistory.length
GetAnalytics ==
  /\ Stage(req) = "handleGetAnalytics"
  /\ IF \E u \in urls : u.shortId = req.shortId
       THEN req' = [Apply(req, "handleGetAnalytics",
                          Outcome(req.user, Send(200), FALSE, FALSE)) EXCEPT
                      !.totalClicks = totalClicks(urls, req.shortId)]
       ELSE req' = Apply(req, "handleGetAnalytics", Outcome(req.user, Send(404), FALSE, FALSE))
  /\ UNCHANGED <<secretKey, now, issued, aux>>

NextUrl ==
  \/ UrlRequest
  \/ RunCheckForAuthentication
  \/ RunRestrictTo
  \/ RunCheckAuthSession
  \/ HomeList
  \/ Page
  \/ GenerateNewShortURL
  \/ RedirectShort
  \/ RedirectUnchecked
  \/ GetAnalytics
  \/ BlogPost
  \/ \E rec \in UsersDB : Login("session", rec.email, rec.password)
  \/ RunRestrictTOUserLoginOnlySession
  \/ Complete

SpecUrl == Init /\ [][NextUrl]_vars

----------------------------------------------------------------------------
(* SpecUsers: the users REST API ("12. Project 01") *)

\* the ids a record or a body can carry; 0 in a body: no id field
UserIds == 1..(MaxUsers + 1)

\* req.body: the fields id, first_name and email, "" and 0 for a missing field;
\* an empty body, the form, and the form with an id
RequestBodies ==
  {[id |-> 0, first_name |-> "", email |-> ""],
   [id |-> 0, first_name |-> "Ann", email |-> "ann@example.com"]}
  \cup { [id |-> k, first_name |-> "Ann", email |-> "ann@example.com"] : k \in UserIds }

\* the bodies that carry the form
Forms == { body \in RequestBodies : body.first_name # "" /\ body.email # "" }

\* users.findIndex((u) => u.id === userid): 0 for -1
findIndex(list, id) ==
  IF \E i \in DOMAIN list : list[i].id = id
    THEN CHOOSE i \in DOMAIN list :
           list[i].id = id /\ \A j \in DOMAIN list : list[j].id = id => i <= j
    ELSE 0

\* the id of a new user: users.length ? users[users.length - 1].id + 1 : 1
newUserId(list) == IF Len(list) # 0 THEN list[Len(list)].id + 1 ELSE 1

\* users.splice(uindex, 1)
splice(list, i) == SubSeq(list, 1, i - 1) \o SubSeq(list, i + 1, Len(list))

\* { id: userid, ...req.body }: a field of the body replaces the one before it
putRecord(id, body) ==
  [id |-> IF body.id # 0 THEN body.id ELSE id,
   first_name |-> body.first_name, email |-> body.email]

\* { ...users[userIndex], ...req.body }
patchRecord(rec, body) ==
  [id |-> IF body.id # 0 THEN body.id ELSE rec.id,
   first_name |-> IF body.first_name # "" THEN body.first_name ELSE rec.first_name,
   email |-> IF body.email # "" THEN body.email ELSE rec.email]

\* a response that does not wait for a file write
Respond(status, method) ==
  /\ reply' = [status |-> status, mutated |-> FALSE]
  /\ UNCHANGED <<users, file, writes>>

\* the list is changed, then fs.writeFile("./users.json", JSON.stringify(users))
\* is started; the response waits for its callback
Mutate(list, method) ==
  /\ Len(writes) < MaxPending
  /\ users' = list
  /\ writes' = Append(writes, [data |-> list, mutated |-> list # users])
  /\ UNCHANGED <<file, reply>>

\* GET /api/user/:id
GetUser(id) ==
  /\ Respond(IF findIndex(users, id) = 0 THEN 404 ELSE 200, "GET")
  /\ UNCHANGED outsideApi

\* POST /api/submit
PostSubmit(body) ==
  /\ IF body.email = "" \/ body.first_name = ""
       THEN Respond(400, "POST")
       ELSE /\ Len(users) < MaxUsers
            /\ newUserId(users) \in UserIds
            /\ Mutate(Append(users, [id |-> newUserId(users), first_name |-> body.first_name,
                                     email |-> body.email]), "POST")
  /\ UNCHANGED outsideApi

\* DELETE /api/user/:id
DeleteUser(id) ==
  /\ IF findIndex(users, id) = 0
       THEN Respond(404, "DELETE")
       ELSE Mutate(splice(users, findIndex(users, id)), "DELETE")
  /\ UNCHANGED outsideApi

\* PUT /api/user/:id
PutUser(id, body) ==
  /\ IF findIndex(users, id) = 0
       THEN Respond(404, "PUT")
       ELSE Mutate([users EXCEPT ![findIndex(users, id)] = putRecord(id, body)], "PUT")
  /\ UNCHANGED outsideApi

\* PATCH /api/user/:id
PatchUser(id, body) ==
  /\ IF findIndex(users, id) = 0
       THEN Respond(404, "PATCH")
       ELSE Mutate([users EXCEPT ![findIndex(users, id)] =
                      patchRecord(users[findIndex(users, id)], body)], "PATCH")
  /\ UNCHANGED outsideApi

\* the callback of a file write that succeeded: the file holds what that call
\* was handed. Writes to one file that overlap finish in any order.
WriteSucceeds(i) ==
  /\ i \in DOMAIN writes
  /\ file' = [file EXCEPT !.content = writes[i].data]
  /\ reply' = [status |-> 200, mutated |-> writes[i].mutated]
  /\ writes' = splice(writes, i)
  /\ UNCHANGED <<outsideApi, users>>

\* the callback of a file write that failed: 500
WriteFails(i) ==
  /\ i \in DOMAIN writes
  /\ file' = [file EXCEPT !.failed = TRUE]
  /\ reply' = [status |-> 500, mutated |-> writes[i].mutated]
  /\ writes' = splice(writes, i)
  /\ UNCHANGED <<outsideApi, users>>

NextUsers ==
  \/ \E id \in UserIds : GetUser(id)
  \/ \E body \in RequestBodies : PostSubmit(body)
  \/ \E id \in UserIds : DeleteUser(id)
  \/ \E id \in UserIds, body \in Forms : PutUser(id, body)
  \/ \E id \in UserIds, body \in RequestBodies : PatchUser(id, body)
  \/ \E i \in 1..MaxPending : WriteSucceeds(i)
  \/ \E i \in 1..MaxPending : WriteFails(i)

SpecUsers == Init /\ [][NextUsers]_vars

----------------------------------------------------------------------------
(* SpecUpload: the upload server ("26. File Upload in Node.js using Multer") *)

\* file.originalname
OriginalNames == {"cat.png", "dog.png"}

\* filename of multer.diskStorage: Date.now() + "-" + file.originalname; the
\* digits before the first "-" are the time, the rest is the original name
filename(ms, originalname) == <<ms, originalname>>

\* the folder after a file was saved under name: a file of that name is
\* replaced
save(folder, name, content) ==
  { f \in folder : f.name # name } \cup {[name |-> name, content |-> content]}

\* POST /upload: upload.single("profileimg") stores the file; its content is
\* told apart by the number of the upload
Upload(originalname) ==
  /\ received < MaxUploads
  /\ received' = received + 1
  /\ uploads' = save(uploads, filename(clockMs, originalname), received + 1)
  /\ UNCHANGED <<outsideUpl, clockMs>>

\* a millisecond passes
TickMs ==
  /\ clockMs < MaxMs
  /\ clockMs' = clockMs + 1
  /\ UNCHANGED <<outsideUpl, uploads, received>>

NextUpload ==
  \/ \E name \in OriginalNames : Upload(name)
  \/ TickMs

SpecUpload == Init /\ [][NextUpload]_vars

----------------------------------------------------------------------------
(* SpecLog: the logging middleware ("18. Model-View-Controller (MVC) Pattern") *)

Methods == {"GET", "POST"}
Paths == {"/users", "/api/users"}

\* `${Date.now()}: ${req.method} ${req.path}\n`
logLine(ms, method, path) == <<ms, method, path>>

\* a logging middleware that calls next() without waiting for the append
logReqRes_NextFirst(r) ==
  [r EXCEPT !.stage = "handler", !.append = "pending", !.nextCalls = r.nextCalls + 1]

\* logReqRes: fs.appendFile is started and the middleware returns
logReqRes(r) == [r EXCEPT !.stage = "appending", !.append = "pending"]

\* the callback of fs.appendFile: if (err) console.log(err); next()
appendCallback(r, err) ==
  [r EXCEPT !.stage = "handler", !.append = IF err THEN "failed" ELSE "ok",
            !.nextCalls = r.nextCalls + 1]

\* a request arrives and enters the middleware
LogArrive(n, method, path) ==
  /\ inflight[n].stage = "idle"
  /\ inflight' = [inflight EXCEPT
                    ![n] = logReqRes([Waiting EXCEPT !.method = method, !.path = path])]
  /\ UNCHANGED <<outsideLog, logfile>>

\* the append of a request completes: the line is in the file, or the append
\* failed
AppendDone(n, err) ==
  /\ inflight[n].append = "pending"
  /\ ~err => Len(logfile) < MaxLines
  /\ logfile' = IF err THEN logfile
                ELSE Append(logfile, logLine(clockMs, inflight[n].method, inflight[n].path))
  /\ inflight' = [inflight EXCEPT ![n] = appendCallback(inflight[n], err)]
  /\ UNCHANGED outsideLog

\* the route handler answers
LogHandle(n) ==
  /\ inflight[n].stage = "handler"
  /\ inflight' = [inflight EXCEPT ![n].stage = "done"]
  /\ UNCHANGED <<outsideLog, logfile>>

\* the connection of an answered request is free for the next one
LogFinish(n) ==
  /\ inflight[n].stage = "done"
  /\ inflight[n].append # "pending"
  /\ inflight' = [inflight EXCEPT ![n] = Waiting]
  /\ UNCHANGED <<outsideLog, logfile>>

NextLog ==
  \/ \E n \in 1..MaxLogged, m \in Methods, p \in Paths : LogArrive(n, m, p)
  \/ \E n \in 1..MaxLogged, err \in BOOLEAN : AppendDone(n, err)
  \/ \E n \in 1..MaxLogged : LogHandle(n)
  \/ \E n \in 1..MaxLogged : LogFinish(n)

SpecLog == Init /\ [][NextLog]_vars

----------------------------------------------------------------------------
(* SpecChat: the chat server ("31. web sockets") *)

Texts == {"hi", "bye"}

\* socket.broadcast.emit: every connected socket but the sender
ioEmit_Broadcast(sender, sockets) == sockets \ {sender}

\* io.emit: every connected socket
ioEmit(sender, sockets) == sockets

\* io.on("connection")
Connect(t) ==
  /\ t \notin connected
  /\ connected' = connected \cup {t}
  /\ UNCHANGED <<outsideChat, emitted, heard>>

\* the socket goes away
Disconnect(t) ==
  /\ t \in connected
  /\ connected' = connected \ {t}
  /\ UNCHANGED <<outsideChat, emitted, heard>>

\* socket.on("user-message"): io.emit("message", message)
UserMessage(t, text) ==
  /\ t \in connected
  /\ Len(heard) < MaxMessages
  /\ heard' = Append(heard, [from |-> t, text |-> text, present |-> connected])
  /\ emitted' = [r \in 1..MaxSockets |->
                   IF r \in ioEmit(t, connected)
                     THEN Append(emitted[r], [from |-> t, text |-> text])
                     ELSE emitted[r]]
  /\ UNCHANGED <<outsideChat, connected>>

NextChat ==
  \/ \E t \in 1..MaxSockets : Connect(t)
  \/ \E t \in 1..MaxSockets : Disconnect(t)
  \/ \E t \in 1..MaxSockets, text \in Texts : UserMessage(t, text)

SpecChat == Init /\ [][NextChat]_vars

----------------------------------------------------------------------------
(* SpecHttp: the raw HTTP methods server (http.createServer) *)

HttpMethods == {"GET", "POST", "PUT", "PATCH", "DELETE", "OPTIONS"}

\* the pieces a request body arrives in
Chunks == {"{\"a\":", "1}", "hello"}

\* JSON.parse(body) of the chunks put together: TRUE when it returns, FALSE
\* when it throws a SyntaxError (the empty body included)
JSONparse(body) == body = <<"{\"a\":", "1}">>

\* the request callback of http.createServer: GET and DELETE are answered,
\* POST, PUT and PATCH register their data and end listeners, any other
\* method is answered with 405
createServer(r, method) ==
  /\ serving
  /\ exchanges[r].state = "none"
  /\ exchanges' = [exchanges EXCEPT ![r] =
       IF method \in {"GET", "DELETE"}
         THEN [state |-> "answered", method |-> method, body |-> <<>>, status |-> 200,
               answers |-> 1]
       ELSE IF method \in {"POST", "PUT", "PATCH"}
         THEN [state |-> "receiving", method |-> method, body |-> <<>>, status |-> 0,
               answers |-> 0]
       ELSE [state |-> "answered", method |-> method, body |-> <<>>, status |-> 405,
             answers |-> 1]]
  /\ UNCHANGED <<outsideHttp, serving>>

\* req.on("data"): body += chunk
onData(r, chunk) ==
  /\ serving
  /\ exchanges[r].state = "receiving"
  /\ Len(exchanges[r].body) < MaxChunks
  /\ exchanges' = [exchanges EXCEPT ![r].body = Append(@, chunk)]
  /\ UNCHANGED <<outsideHttp, serving>>

\* req.on("end"): JSON.parse(body), then res.end; the SyntaxError of
\* JSON.parse is thrown from the listener with nothing to catch it, which ends
\* the process
onEnd(r) ==
  /\ serving
  /\ exchanges[r].state = "receiving"
  /\ IF JSONparse(exchanges[r].body)
       THEN /\ exchanges' = [exchanges EXCEPT ![r].state = "answered", ![r].status = 200,
                                              ![r].answers = @ + 1]
            /\ serving' = TRUE
       ELSE /\ exchanges' = [exchanges EXCEPT ![r].state = "ended"]
            /\ serving' = FALSE
  /\ UNCHANGED outsideHttp

NextHttp ==
  \/ \E r \in 1..MaxRequests, method \in HttpMethods : createServer(r, method)
  \/ \E r \in 1..MaxRequests, chunk \in Chunks : onData(r, chunk)
  \/ \E r \in 1..MaxRequests : onEnd(r)

SpecHttp == Init /\ [][NextHttp]_vars

----------------------------------------------------------------------------
(* Properties *)

\* the trace entries left by a stage of the request in flight
Entries(stage) == { i \in DOMAIN req.trace : req.trace[i].stage = stage }

\* req.user as the stage at position i of the trace found it
UserBefore(i) == IF i = 1 THEN Undefined ELSE req.trace[i - 1].user

\* the guard's decision as the response shows it
Decision(out) ==
  IF out.next THEN "Allow"
  ELSE IF out.res.kind = "redirect" /\ out.res.location = "/login" THEN "NotAuthenticated"
  ELSE IF out.res.kind = "send" /\ out.res.status = 403 THEN "InsufficientRole"
  ELSE "other"

\* check(identity, requiredRoles) of the design
Check(identity, roles) ==
  IF identity.kind # "user" THEN "NotAuthenticated"
  ELSE IF identity.role \notin roles THEN "InsufficientRole"
  ELSE "Allow"

\* C1: restrictTo(roles) decides from (req.user, roles) alone: for every
\* non-empty role set an anonymous identity is denied as NotAuthenticated, an
\* authenticated identity with a role outside the set is denied as
\* InsufficientRole, one with a role inside the set is allowed; every run of the
\* guard in a request gave the decision of the identity it found, and left
\* req.user alone.
C1_GuardDecision ==
  /\ \A roles \in RoleSets :
       /\ Decision(restrictTo(roles, req)) = Check(req.user, roles)
       /\ \A u \in Users : Decision(restrictTo(roles, [req EXCEPT !.user = u])) = Check(u, roles)
  /\ \A i \in Entries("restrictTo") :
       /\ Decision(req.trace[i]) = Check(UserBefore(i), RequiredRoles(req.app, req.route))
       /\ req.trace[i].user = UserBefore(i)

\* C1 witness: the guard has denied an authenticated user for its role, on a
\* route another role may enter
C1_Witness ==
  \E i \in Entries("restrictTo") :
    /\ UserBefore(i).kind = "user"
    /\ Decision(req.trace[i]) = "InsufficientRole"

\* C2: a guard denial answers by its cause: NotAuthenticated with a redirect
\* to /login (or 401), InsufficientRole with 403 and never a redirect to
\* /login; the protected handler does not run after a denial.
C2_DenialByCause ==
  \A i \in Entries("restrictTo") \cup Entries("restrictToReadme") :
    LET e == req.trace[i] IN
    ~e.next =>
      /\ UserBefore(i).kind # "user" =>
           \/ (e.res.kind = "redirect" /\ e.res.location = "/login")
           \/ e.res.status = 401
      /\ UserBefore(i).kind = "user" =>
           (e.res.status = 403 /\ e.res.kind # "redirect")
      /\ Entries("handler") = {}

\* the secret a token's signature was computed with
SignedWith(token) == token.sig[1]

\* C3: checkForAuthentication resolves a request with no token, a malformed
\* token or a token signed with another secret to req.user = null and calls
\* next(); a token issued before a restart with a different secret is such a
\* token.
C3_AnonymousDefault ==
  \A i \in Entries("checkForAuthentication") :
    (\/ req.cookie = NoToken
     \/ req.cookie.parts # 3
     \/ SignedWith(req.cookie) # secretKey)
    => /\ req.trace[i].user = Null
       /\ req.trace[i].next

\* C3 witness: a token the login handler issued under the former secret was
\* presented after the restart and resolved to null
C3_Witness ==
  \E i \in Entries("checkForAuthentication") :
    /\ req.cookie \in IssuedTokens
    /\ SignedWith(req.cookie) # secretKey
    /\ req.trace[i].user = Null
    /\ req.trace[i].next

\* C4: token extraction is total: whatever header and cookie a request
\* carries, every authentication middleware either calls next() with req.user
\* set or sends a response; none throws and none leaves the request unanswered.
C4_ExtractionTotal ==
  /\ req.pc # "thrown"
  /\ \A i \in DOMAIN req.trace :
       req.trace[i].stage \in {"checkAuth", "restrictTOUserLoginOnly", "checkForAuthentication"}
       => \/ (req.trace[i].next /\ req.trace[i].user.kind \in {"null", "user"})
          \/ (~req.trace[i].next /\ req.trace[i].res.kind # "none")

\* C5 as claimed: on every path checkForAuthentication only sets req.user and
\* calls next(); it writes nothing to the response.
C5_SessionNeverWrites ==
  \A i \in Entries("checkForAuthentication") :
    /\ req.trace[i].next
    /\ req.trace[i].res = NoRes

\* C5 as amended: on every path checkForAuthentication sets req.user and calls
\* next(); it never redirects and never ends the request; the one thing it
\* writes to the response is the clearing of the token cookie, exactly when a
\* token was presented and did not verify.
C5_SessionOnlyClearsCookie ==
  \A i \in Entries("checkForAuthentication") :
    LET e == req.trace[i] IN
    /\ e.next
    /\ e.user.kind \in {"null", "user"}
    /\ e.res.kind = "none" /\ e.res.status = 0 /\ e.res.location = ""
    /\ e.res.clearCookie <=>
         (req.cookie # NoToken /\ jwtVerifyError(req.cookie, secretKey, now) # "ok")

\* C5 witness: the middleware met a token that does not verify, cleared the
\* cookie and went on
C5_Witness ==
  \E i \in Entries("checkForAuthentication") :
    /\ req.cookie # NoToken
    /\ req.trace[i].res.clearCookie
    /\ req.trace[i].next

\* the routes of the authz application behind restrictTo
Protected(r) == r.app = "authz" /\ r.route # "/user"

\* C6: within one request of the authz application the stages run in the
\* order session middleware, access guard, handler: the guard runs second, on
\* a req.user the session middleware has assigned; the protected handler runs
\* third, after the guard called next(); after a denial no handler runs.
C6_StageOrder ==
  Protected(req) =>
    /\ \A i \in Entries("restrictTo") :
         /\ i = 2
         /\ req.trace[1].stage = "checkForAuthentication"
         /\ req.trace[1].user.kind \in {"null", "user"}
    /\ \A i \in Entries("handler") :
         /\ i = 3
         /\ req.trace[2].stage = "restrictTo"
         /\ Decision(req.trace[2]) = "Allow"
    /\ (\E i \in Entries("restrictTo") : ~req.trace[i].next) => Entries("handler") = {}
    /\ req.pc = "running" /\ req.idx > 1 => req.trace[req.idx - 1].next

\* C6 witness: a protected handler has run, after both stages
C6_Witness ==
  /\ Protected(req)
  /\ Entries("handler") = {3}
  /\ Entries("restrictTo") = {2}
  /\ Entries("checkForAuthentication") = {1}

\* the token a request presents on the transport its application reads
TransportToken(r) ==
  IF r.app = "header" THEN SplitBearer(r.authorization) ELSE r.cookie

\* the identity a token stands for at this moment
Identity(token) ==
  LET p == getUser(token, secretKey, now) IN IF p.kind = "null" THEN Null ELSE p.user

\* the request has gone through its whole stack
Finished(r) == r.pc \in {"done", "thrown"}

\* C7: a request that presents a token received at login, over the transport
\* the middleware of its application reads, is resolved to that user and let
\* through to the protected handler (stated for a token that still verifies
\* and a role the route accepts).
C7_TokenAdmits ==
  \A i \in issued :
    (/\ Finished(req)
     /\ TransportToken(req) = i.token
     /\ jwtVerifyError(i.token, secretKey, now) = "ok"
     /\ (req.app = "header" \/ i.user.role \in RequiredRoles(req.app, req.route)))
    => /\ req.user = i.user
       /\ Entries("handler") # {}

\* C8 as claimed: the bearer token of the Authorization header is used if
\* present, only otherwise the token cookie, and with neither the identity is
\* anonymous.
C8_HeaderPrecedence ==
  \A i \in Entries("checkForAuthentication") :
    /\ req.trace[i].next
    /\ req.trace[i].user =
         IF req.authorization.present /\ req.authorization.scheme = "Bearer"
           THEN Identity(req.authorization.token)
         ELSE IF req.cookie # NoToken THEN Identity(req.cookie)
         ELSE Null

\* C8 as amended: checkForAuthentication takes the token from the cookie only
\* and ignores the Authorization header; with no cookie the identity is
\* anonymous and the request goes on; a request with a valid header token and
\* an invalid cookie token resolves to anonymous.
C8_CookieOnly ==
  \A i \in Entries("checkForAuthentication") :
    /\ req.trace[i].next
    /\ req.trace[i].user = IF req.cookie = NoToken THEN Null ELSE Identity(req.cookie)

\* C8 witness: a valid bearer token in the header, an invalid token in the
\* cookie, and the request resolved to anonymous
C8_Witness ==
  \E i \in Entries("checkForAuthentication") :
    /\ req.authorization.scheme = "Bearer"
    /\ Identity(req.authorization.token).kind = "user"
    /\ req.cookie # NoToken
    /\ req.trace[i].user = Null

\* expiresAt of the token is in the future, or absent
Unexpired(token) == token.payload[6] = NoExp \/ now < token.payload[6]

SessionStages ==
  {"checkForAuthentication", "checkForAuthenticationReadme", "checkAuth",
   "restrictTOUserLoginOnly"}

\* C10: a token made from an issued token by altering its payload, its
\* signature or its header fails verification (getUser returns null), and a
\* request is resolved to a user only by an issued token of that user.
C10_TamperDetection ==
  /\ \A i \in issued : \A t \in Tampered(i.token) : getUser(t, secretKey, now) = NullPayload
  /\ \A j \in DOMAIN req.trace :
       (req.trace[j].stage \in SessionStages /\ req.trace[j].user.kind = "user")
       => \E i \in issued : TransportToken(req) = i.token /\ req.trace[j].user = i.user

\* C10 witness: an issued token that verifies was altered, presented, and the
\* request resolved to anonymous
C10_Witness ==
  \E i \in issued : \E j \in Entries("checkForAuthentication") :
    /\ jwtVerifyError(i.token, secretKey, now) = "ok"
    /\ req.cookie \in Tampered(i.token)
    /\ req.trace[j].user = Null

\* expiresAt of the token is present and in the past
Expired(token) == token.payload[6] # NoExp /\ now >= token.payload[6]

\* C11 as claimed: a token with a valid signature whose expiry is in the past
\* fails verification with an outcome of its own, distinct from that of an
\* invalid token.
C11_ExpiredDistinct ==
  \A i \in issued :
    (SignedWith(i.token) = secretKey /\ Expired(i.token)) =>
      /\ getUser(i.token, secretKey, now).kind = "null"
      /\ getUser(i.token, secretKey, now) # getUser(Garbage, secretKey, now)

\* C11 as amended: a token with a valid signature whose expiry is in the past
\* always fails verification: jwt.verify raises TokenExpiredError, but getUser
\* turns it into null, the outcome of an invalid token; a request presenting
\* it is resolved to no user.
C11_ExpiredRejected ==
  \A i \in issued :
    (SignedWith(i.token) = secretKey /\ Expired(i.token)) =>
      /\ jwtVerifyError(i.token, secretKey, now) = "TokenExpiredError: jwt expired"
      /\ getUser(i.token, secretKey, now) = NullPayload
      /\ getUser(i.token, secretKey, now) = getUser(Garbage, secretKey, now)
      /\ \A j \in DOMAIN req.trace :
           (req.trace[j].stage \in SessionStages /\ TransportToken(req) = i.token)
           => req.trace[j].user.kind # "user"

\* C11 witness: an issued token, signed with the current secret, was presented
\* after its expiry and the request resolved to null
C11_Witness ==
  \E i \in issued : \E j \in Entries("checkForAuthentication") :
    /\ SignedWith(i.token) = secretKey
    /\ Expired(i.token)
    /\ req.cookie = i.token
    /\ req.trace[j].user = Null

----------------------------------------------------------------------------
(* Properties of SpecLogin *)

\* C12 as claimed: authentication is stateless: no login writes the map keyed
\* by session id, no request reads it, and the user a request is resolved to is
\* the one its own token names.
C12_Stateless ==
  /\ sessions = {}
  /\ \A j \in DOMAIN req.trace :
       req.trace[j].user.kind = "user" => req.trace[j].user = Identity(req.cookie)

\* C13: a token issued before a restart of the process still resolves to the
\* user it was issued for after the restart, the secret being unchanged: the
\* middleware verifies it with the secret alone (stated for a token whose
\* lifetime has not elapsed).
C13_SurvivesRestart ==
  \A i \in issued :
    (i.boot < boots /\ SignedWith(i.token) = secretKey /\ Unexpired(i.token)) =>
      /\ Identity(i.token) = i.user
      /\ \A j \in Entries("checkForAuthentication") :
           req.cookie = i.token => req.trace[j].user = i.user

C13_Witness ==
  \E i \in issued : \E j \in Entries("checkForAuthentication") :
    /\ i.boot < boots
    /\ sessions = {}
    /\ req.cookie = i.token
    /\ req.trace[j].user = i.user

\* the credentials are those of a stored user
Verifies(email, password) ==
  \E rec \in UsersDB : rec.email = email /\ rec.password = password

Registered(email) == \E rec \in UsersDB : rec.email = email

\* C14: in every variant of the login handler an attempt with an unknown email
\* and an attempt with a known email and a wrong password get the same answer:
\* the same view, status and error message, and no cookie.
C14_CredentialUniformity ==
  /\ \A v \in LoginVariants : \A e1 \in Emails, e2 \in Emails :
       \A p1 \in Passwords, p2 \in Passwords :
         (~Registered(e1) /\ Registered(e2) /\ ~Verifies(e2, p2)) =>
           LET unknown == LoginAnswer(v, e1, p1)
               wrong == LoginAnswer(v, e2, p2)
           IN /\ unknown = wrong
              /\ wrong.cookie = "none"
              /\ wrong.token = NoToken
              /\ wrong.res.kind = "render"
  /\ (last.op = "login" /\ ~Verifies(last.email, last.password)) =>
       \E e \in Emails :
         /\ ~Registered(e)
         /\ last = Exchange("login", last.variant, last.email, last.password,
                            LoginAnswer(last.variant, e, last.password))

C14_Witness ==
  /\ last.op = "login"
  /\ last.variant = "blog"
  /\ Registered(last.email)
  /\ ~Verifies(last.email, last.password)
  /\ last.error = "Invalid credentials"
  /\ last.cookie = "none"

\* C15: GET /logout clears the token cookie and nothing else: the tokens that
\* were issued, the session map and the secret stay as they are; from then on,
\* until the next login, the browser holds no token and checkForAuthentication
\* resolves its requests to null.
C15_LogoutClearsCookie ==
  [][/\ (last'.op = "logout" /\ last' # last) =>
          /\ issued' = issued
          /\ sessions' = sessions
          /\ secretKey' = secretKey
          /\ last'.cookie = "clear"
          /\ last'.res.clearCookie
          /\ jar' = [jar EXCEPT !.token = NoToken]
     /\ last'.op = "logout" =>
          /\ jar'.token = NoToken
          /\ \A j \in DOMAIN req'.trace :
               req'.trace[j].stage = "checkForAuthentication" =>
                 req'.trace[j].user = Null]_vars

C15_Witness ==
  /\ last.op = "logout"
  /\ issued # {}
  /\ req.cookie = NoToken
  /\ \E j \in Entries("checkForAuthentication") : req.trace[j].user = Null

C17_OnlyGuardStops ==
  \A j \in DOMAIN req.trace :
    Decision(req.trace[j]) \in {"NotAuthenticated", "InsufficientRole"} =>
      req.trace[j].stage \in {"restrictTo", "restrictToReadme"}

----------------------------------------------------------------------------
(* Properties of SpecUrl *)

\* C18 as claimed: the login and signup pages are public: a request for
\* GET /login or GET /signup without a token is answered with that page.
C18_LoginPagePublic ==
  (/\ req.pc = "done"
   /\ req.route \in {"GET /login", "GET /signup"}
   /\ req.cookie = NoToken) =>
    req.res = Render(IF req.route = "GET /login" THEN "login" ELSE "signup")

\* the user a token cookie of the shortener stands for
Owner(cookie) == Identity(cookie)

C20_SharedLink ==
  \A u \in urls :
    (/\ req.pc = "done"
     /\ req.route = "GET /:shortId"
     /\ req.shortId = u.shortId
     /\ req.cookie = NoToken /\ req.uid = 0) =>
      /\ req.res = Redirect(u.redirectURL)
      /\ Entries("redirect") # {}

----------------------------------------------------------------------------
(* Properties of SpecUsers *)

\* C21 as claimed: no two records of the users list have the same id,
\* whatever bodies the POST, PUT, PATCH and DELETE requests carried.
C21_UniqueIds ==
  \A i \in DOMAIN users : \A j \in DOMAIN users :
    i # j => users[i].id # users[j].id

\* C28 as claimed: once every file write that was started has completed, and
\* none has failed, users.json holds the users list.
C28_FileFollowsList ==
  (writes = <<>> /\ ~file.failed) => file.content = users

\* C29 as claimed: a request answered with 400, 404 or 500 has left the users
\* list as it was.
C29_ErrorsLeaveList ==
  reply.status \in {400, 404, 500} => ~reply.mutated

----------------------------------------------------------------------------
(* Properties of SpecUpload *)

\* C22 as claimed: every upload is stored under a name of its own: the file
\* of every upload received so far is still in the uploads folder.
C22_NoOverwrite ==
  \A n \in 1..received : \E f \in uploads : f.content = n

----------------------------------------------------------------------------
(* Click tracking (SpecUrl) *)

\* C23 as claimed: click tracking is exact: the visits on record for a short
\* id, and the totalClicks the analytics handler reports for it, equal the
\* number of redirects answered for it; a request for an unknown short id is
\* answered with 404.
C23_ClicksExact ==
  /\ \A u \in urls : u.visits = served[u.shortId]
  /\ \A j \in Entries("handleGetAnalytics") :
       req.res = Send(200) => req.totalClicks = served[req.shortId]
  /\ (/\ Finished(req)
      /\ req.route \in WithShortId
      /\ \E j \in DOMAIN req.trace :
           req.trace[j].stage \in {"redirect", "redirectUnchecked", "handleGetAnalytics"}
      /\ \A u \in urls : u.shortId # req.shortId) =>
       req.res = Send(404)

----------------------------------------------------------------------------
(* Properties of SpecLog *)

\* C24: logReqRes calls next() once per request, in the callback of
\* fs.appendFile and so after the append has completed, whether it failed or
\* not: a request whose handler has started has a completed append and one
\* call of next(), a request whose append is pending has none, a completed
\* append always comes with the call of next(), and the line of a successful
\* append is in the file.
C24_NextAfterAppend ==
  \A n \in 1..MaxLogged :
    LET r == inflight[n] IN
    /\ r.nextCalls <= 1
    /\ r.stage \in {"handler", "done"} => (r.append \in {"ok", "failed"} /\ r.nextCalls = 1)
    /\ r.append = "pending" => (r.stage = "appending" /\ r.nextCalls = 0)
    /\ r.append \in {"ok", "failed"} => r.nextCalls = 1
    /\ r.append = "ok" =>
         \E i \in DOMAIN logfile : logfile[i] = logLine(clockMs, r.method, r.path)

C24_Witness ==
  \E n \in 1..MaxLogged, m \in 1..MaxLogged :
    /\ inflight[n].stage = "handler" /\ inflight[n].append = "failed"
    /\ inflight[m].stage = "handler" /\ inflight[m].append = "ok"

----------------------------------------------------------------------------
(* Properties of SpecChat *)

RECURSIVE MessagesFor(_, _)
\* the messages of a log that were received while socket t was connected, in
\* the order of the log
MessagesFor(t, log) ==
  IF log = <<>> THEN <<>>
  ELSE IF t \in Head(log).present
    THEN <<[from |-> Head(log).from, text |-> Head(log).text]>> \o MessagesFor(t, Tail(log))
    ELSE MessagesFor(t, Tail(log))

\* C25: every user-message the server received was emitted as a message event
\* to every socket connected at that moment, the sender among them, and a
\* socket was sent the messages in the order the server received them.
C25_Broadcast ==
  /\ \A i \in DOMAIN heard : heard[i].from \in heard[i].present
  /\ \A t \in 1..MaxSockets : emitted[t] = MessagesFor(t, heard)

C25_Witness ==
  /\ Len(heard) >= 2
  /\ heard[1].from = heard[2].from
  /\ heard[1].text # heard[2].text
  /\ Cardinality(heard[1].present) >= 2
  /\ \E t \in 1..MaxSockets :
       /\ t # heard[1].from
       /\ Len(emitted[t]) >= 2
       /\ emitted[t][1].text = heard[1].text
       /\ emitted[t][2].text = heard[2].text
       /\ emitted[heard[1].from][1].text = heard[1].text

----------------------------------------------------------------------------
(* Properties of the handlers that read req.user._id *)

\* the handlers that dereference req.user._id
Dereferencing == {"handleGenerateNewShortURL", "blogPost"}

\* what C26 asks of the handlers in the set stages
IdentityAt(stages) ==
  \A i \in DOMAIN req.trace :
    req.trace[i].stage \in stages =>
      /\ ~Falsy(req.trace[i].user)
      /\ req.app = "shortener" =>
           req.trace[i].user.role \in RequiredRoles(req.app, req.route)
      /\ req.trace[i].res.kind = "render" =>
           \E u \in urls : /\ u.redirectURL = req.url
                           /\ u.createdBy = req.trace[i].user._id

C26_GuardedCreate == IdentityAt({"handleGenerateNewShortURL"})

----------------------------------------------------------------------------
(* Properties of SpecHeader *)

\* what C27 asks of the middleware stages in the set stages: the stage called
\* next() and left req.user null or the user of a token that verifies
AssignsBeforeNext(stages) ==
  \A i \in DOMAIN req.trace :
    req.trace[i].stage \in stages =>
      /\ req.trace[i].next
      /\ req.trace[i].user.kind # "undefined"
      /\ \/ req.trace[i].user = Null
         \/ \E token \in {req.cookie, req.authorization.token} :
              /\ jwtVerifyError(token, secretKey, now) = "ok"
              /\ req.trace[i].user = Deser(token.payload).user

\* C27: on every path checkForAuthentication has assigned req.user, null or
\* the user of the token, when it calls next(), and the stage after it never
\* sees a req.user that is undefined because verification failed.
C27_AssignsBeforeNext ==
  AssignsBeforeNext({"checkForAuthentication", "checkForAuthenticationHeader"})

\* the same for the checkForAuthentication of middlewares/auth.js alone
C27_CookieVersion == AssignsBeforeNext({"checkForAuthentication"})

----------------------------------------------------------------------------
(* Properties of SpecHttp *)

\* C30: the methods server answers every request exactly once: GET and DELETE
\* at once, POST, PUT and PATCH once the whole body has arrived, whatever the
\* body holds, any other method with 405; no request whose body has ended is
\* left without a response and the process keeps serving.
C30_AnswersEveryRequest ==
  /\ serving
  /\ \A r \in 1..MaxRequests :
       LET x == exchanges[r] IN
       /\ x.answers <= 1
       /\ x.state = "ended" => x.answers = 1
       /\ x.state = "answered" =>
            /\ x.answers = 1
            /\ x.status = IF x.method \in {"GET", "POST", "PUT", "PATCH", "DELETE"}
                            THEN 200 ELSE 405

\* the same while every body that has ended was valid JSON
C30_ValidBodies ==
  (\A r \in 1..MaxRequests : exchanges[r].state = "ended" => JSONparse(exchanges[r].body))
    => C30_AnswersEveryRequest

====
